---- MODULE Spec2Model ----
(***************************************************************************)
(* Model of the Lunu builder (builder/src/main.cpp) and of the Lunu        *)
(* self-extracting launcher stub (builder/src/stub.c).                     *)
(*                                                                         *)
(* Launcher: several launcher processes (invocations) run main() of stub.c *)
(* against one shared file system.  Every host call of main() is one       *)
(* action of the invocation that makes it; the host (process identifiers,  *)
(* results of the calls, the child runtime, the user at the console) is    *)
(* the nondeterministic environment.                                       *)
(*                                                                         *)
(* Builder: one run of main(argc, argv) of main.cpp.                       *)
(***************************************************************************)
EXTENDS Integers, Sequences, FiniteSets, TLC

(***************************************************************************)
(* Bounds of the model.                                                    *)
(***************************************************************************)
\* number of distinct process identifiers the host hands out
NumPids == 2
\* longest script path (in characters) given to the builder
MaxPathLen == 3

\* the launcher invocations observed (two: enough for every pairwise case)
Inv == {"A", "B"}
Pids == 1..NumPids

(***************************************************************************)
(* DWORD values.  TLC integers are 32-bit signed, so a DWORD is held as    *)
(* its two 16-bit halves <<hi, lo>>.                                       *)
(***************************************************************************)
Half == 65536
DWord(hi, lo) == <<hi, lo>>
\* the exit codes the child runtime is observed to end with: 0, 7 and
\* 0xFFFFFFFF (exit(-1))
ChildCodes == {DWord(0, 0), DWord(0, 7), DWord(65535, 65535)}
\* An uninitialized DWORD local holds whatever the stack held before: any of
\* the 2^32 DWORD values, decided by the build and by the run (stale halves of
\* stack addresses such as 0x00007FDA, 0x00007F02, 0x00007F28, zero, debug
\* fill, ...).  The range is split into classes: each value the model names
\* elsewhere (the child's codes and the code of panic) is a class of its own,
\* and AnyOtherDWord stands for every DWORD that is none of them.
AnyOtherDWord == <<"any other DWORD">>
StackGarbage == ChildCodes \cup {DWord(0, 1)} \cup {AnyOtherDWord}

\* DWORD -> int, as `return exit_code;` converts it (two's complement)
DWordToInt(d) ==
    IF d[1] >= 32768
       THEN (0 - ((65535 - d[1]) * Half)) - (Half - d[2])
       ELSE d[1] * Half + d[2]

\* int -> the DWORD the host records as the process's exit code
IntToDWord(n) ==
    IF n < 0
       THEN LET m == (n + 2147483647) + 1
            IN  DWord(32768 + (m \div Half), m % Half)
       ELSE DWord(n \div Half, n % Half)

(***************************************************************************)
(* stub.c                                                                  *)
(***************************************************************************)
VARIABLES
    fs,            \* file system: temp directory name -> its state
    archive,       \* what the launcher image holds after the stub code
    pc,            \* per invocation: position in main() / panic()
    pid,           \* per invocation: GetCurrentProcessId()
    unique_dir,    \* per invocation: main's unique_dir (0: not yet set)
    createResult,  \* per invocation: outcome of CreateDirectoryA
    panicMsg,      \* per invocation: argument of panic()
    stderrOut,     \* per invocation: lines written to stderr
    acked,         \* per invocation: the user pressed Enter at getchar()
    child,         \* per invocation: the spawned runtime process
    childCode,     \* per invocation: exit code the child ended with
    launch,        \* per invocation: arguments of CreateProcessA
    exit_code,     \* per invocation: main's local exit_code
    status,        \* per invocation: exit code of the launcher process
    ops,           \* per invocation: operations made on pi.hProcess
    trace,         \* per invocation: lifecycle steps taken, in order
    dirAtReport,   \* per invocation: temp dir existed when panic printed
    dirAtExit      \* per invocation: temp dir existed at process exit

lvars == <<fs, archive, pc, pid, unique_dir, createResult, panicMsg, stderrOut,
           acked, child, childCode, launch, exit_code, status, ops, trace,
           dirAtReport, dirAtExit>>

(***************************************************************************)
(* main.cpp                                                                *)
(***************************************************************************)
VARIABLES
    argv,          \* the builder's command line, argv[0] included
    inputOK,       \* the script file named on the command line is readable
    bpc,           \* builder: "start" or "done"
    bexit,         \* builder: exit code of main (-1: still running)
    bout,          \* builder: lines written to cout
    berr,          \* builder: lines written to cerr
    written        \* builder: files written to the current directory

bvars == <<argv, inputOK, bpc, bexit, bout, berr, written>>

vars == <<lvars, bvars>>

\* no exit code yet / an uninitialized DWORD local
NoCode == <<>>

\* #define TEMP_PREFIX / "%slunu_%lu": the directory name is a function of the
\* temp root (one root here) and of the process identifier
DirNameConst(p) == 1
DirName(p) == p

LunePathBare(d) == <<0, "bin", "lune.exe">>
LunePath(d) == <<d, "bin", "lune.exe">>
ScriptPath(d) == <<d, "src", "main.luau">>
CmdLine(d) == <<LunePath(d), "run", ScriptPath(d)>>

\* the condition under which main goes on after CreateDirectoryA
CreateDirOKStrict(r) == r = "created"
CreateDirOK(r) == (r = "created") \/ (r = "ERROR_ALREADY_EXISTS")

\* exit(1) in panic
PanicExitZero == 1 - 1
PanicExitCode == 1

\* extract_payload: prints one line, writes nothing
ExtractPayload(f, d) == f

\* CreateProcessA not called yet
NoLaunch == [cmd |-> <<>>, cwd |-> 0]

Absent == [exists |-> FALSE, runtime |-> FALSE, leftBy |-> {}]
WithRuntime == [exists |-> TRUE, runtime |-> TRUE, leftBy |-> {}]
EmptyDir == [exists |-> TRUE, runtime |-> FALSE, leftBy |-> {}]

ArchiveStates == {"ok", "ArchiveNotFound", "UnsafePath", "ExtractionIOError"}

Alive(i) == pc[i] \notin {"idle", "exited"}

LInit ==
    /\ fs \in [Pids -> {Absent, WithRuntime}]
    /\ archive \in ArchiveStates
    /\ pc = [i \in Inv |-> "idle"]
    /\ pid = [i \in Inv |-> 0]
    /\ unique_dir = [i \in Inv |-> 0]
    /\ createResult = [i \in Inv |-> "none"]
    /\ panicMsg = [i \in Inv |-> "none"]
    /\ stderrOut = [i \in Inv |-> <<>>]
    /\ acked = [i \in Inv |-> FALSE]
    /\ child = [i \in Inv |-> "none"]
    /\ childCode = [i \in Inv |-> NoCode]
    /\ launch = [i \in Inv |-> NoLaunch]
    /\ exit_code = [i \in Inv |-> NoCode]
    /\ status = [i \in Inv |-> NoCode]
    /\ ops = [i \in Inv |-> <<>>]
    /\ trace = [i \in Inv |-> <<>>]
    /\ dirAtReport = [i \in Inv |-> FALSE]
    /\ dirAtExit = [i \in Inv |-> FALSE]

PanicContinues(i, msg) ==
    /\ pc' = [pc EXCEPT ![i] = IF @ = "GetModuleFileName" THEN "CreateDirectory"
                                                            ELSE "panic"]
    /\ panicMsg' = [panicMsg EXCEPT ![i] = msg]
    /\ trace' = [trace EXCEPT ![i] = Append(@, "Failed")]

\* a call of panic(msg): control enters panic and never returns to main
Panic(i, msg) ==
    /\ pc' = [pc EXCEPT ![i] = "panic"]
    /\ panicMsg' = [panicMsg EXCEPT ![i] = msg]
    /\ trace' = [trace EXCEPT ![i] = Append(@, "Failed")]

\* the host starts the launcher process; identifiers of live processes differ
Start(i) ==
    /\ pc[i] = "idle"
    /\ \E p \in Pids \ {pid[j] : j \in {k \in Inv : Alive(k)}} :
         pid' = [pid EXCEPT ![i] = p]
    /\ pc' = [pc EXCEPT ![i] = "GetModuleFileName"]
    /\ UNCHANGED <<fs, archive, unique_dir, createResult, panicMsg, stderrOut,
                   acked, child, childCode, launch, exit_code, status, ops,
                   trace, dirAtReport, dirAtExit>>

\* stub.c 27-30
GetModuleFileName(i) ==
    /\ pc[i] = "GetModuleFileName"
    /\ \/ /\ pc' = [pc EXCEPT ![i] = "CreateDirectory"]
          /\ UNCHANGED <<panicMsg, trace>>
       \/ Panic(i, "Failed to get executable path")
    /\ UNCHANGED <<fs, archive, pid, unique_dir, createResult, stderrOut, acked,
                   child, childCode, launch, exit_code, status, ops,
                   dirAtReport, dirAtExit>>

\* stub.c 32-41
CreateTempDir(i) ==
    /\ pc[i] = "CreateDirectory"
    /\ LET d == DirName(pid[i]) IN
       /\ unique_dir' = [unique_dir EXCEPT ![i] = d]
       /\ \E r \in (IF fs[d].exists THEN {"ERROR_ALREADY_EXISTS"}
                                    ELSE {"created", "ERROR_ACCESS_DENIED"}) :
            /\ createResult' = [createResult EXCEPT ![i] = r]
            /\ fs' = IF r = "created" THEN [fs EXCEPT ![d] = EmptyDir] ELSE fs
            /\ IF CreateDirOK(r)
                  THEN /\ pc' = [pc EXCEPT ![i] = "extract_payload"]
                       /\ trace' = [trace EXCEPT ![i] = Append(@, "TempDirCreated")]
                       /\ UNCHANGED panicMsg
                  ELSE Panic(i, "Failed to create temp directory")
    /\ UNCHANGED <<archive, pid, stderrOut, acked, child, childCode, launch,
                   exit_code, status, ops, dirAtReport, dirAtExit>>

\* stub.c 43-44 with 18-24
Extract(i) ==
    /\ pc[i] = "extract_payload"
    /\ fs' = ExtractPayload(fs, unique_dir[i])
    /\ pc' = [pc EXCEPT ![i] = "CreateProcess"]
    /\ trace' = [trace EXCEPT ![i] = Append(@, "Extracted")]
    /\ UNCHANGED <<archive, pid, unique_dir, createResult, panicMsg, stderrOut,
                   acked, child, childCode, launch, exit_code, status, ops,
                   dirAtReport, dirAtExit>>

\* stub.c 46-65: CreateProcessA starts bin\lune.exe only if that file exists
Spawn(i) ==
    /\ pc[i] = "CreateProcess"
    /\ LET d == unique_dir[i] IN
       \/ /\ fs[d].exists /\ fs[d].runtime
          /\ child' = [child EXCEPT ![i] = "running"]
          /\ launch' = [launch EXCEPT ![i] = [cmd |-> CmdLine(d), cwd |-> d]]
          /\ ops' = [ops EXCEPT ![i] = Append(@, "spawn")]
          /\ pc' = [pc EXCEPT ![i] = "WaitForSingleObject"]
          /\ trace' = [trace EXCEPT ![i] = Append(@, "Spawned")]
          /\ UNCHANGED panicMsg
       \/ /\ Panic(i, "Failed to start Lune runtime")
          /\ UNCHANGED <<child, launch, ops>>
    /\ UNCHANGED <<fs, archive, pid, unique_dir, createResult, stderrOut, acked,
                   childCode, exit_code, status, dirAtReport, dirAtExit>>

\* the runtime, running in unique_dir, leaves a file there
ChildWrite(i) ==
    /\ child[i] = "running"
    /\ i \notin fs[launch[i].cwd].leftBy
    /\ fs' = [fs EXCEPT ![launch[i].cwd].leftBy = @ \cup {i}]
    /\ UNCHANGED <<archive, pc, pid, unique_dir, createResult, panicMsg,
                   stderrOut, acked, child, childCode, launch, exit_code,
                   status, ops, trace, dirAtReport, dirAtExit>>

\* the runtime ends with some exit code
ChildExit(i) ==
    /\ child[i] = "running"
    /\ \E c \in ChildCodes : childCode' = [childCode EXCEPT ![i] = c]
    /\ child' = [child EXCEPT ![i] = "terminated"]
    /\ UNCHANGED <<fs, archive, pc, pid, unique_dir, createResult, panicMsg,
                   stderrOut, acked, launch, exit_code, status, ops, trace,
                   dirAtReport, dirAtExit>>

WaitNoBlock(i) ==
    /\ pc[i] = "WaitForSingleObject"
    /\ ops' = [ops EXCEPT ![i] = Append(@, "wait")]
    /\ pc' = [pc EXCEPT ![i] = "GetExitCodeProcess"]
    /\ trace' = [trace EXCEPT ![i] = Append(@, "Waited")]
    /\ UNCHANGED <<fs, archive, pid, unique_dir, createResult, panicMsg,
                   stderrOut, acked, child, childCode, launch, exit_code,
                   status, dirAtReport, dirAtExit>>

\* stub.c 67: returns once the child has terminated
Wait(i) ==
    /\ pc[i] = "WaitForSingleObject"
    /\ child[i] = "terminated"
    /\ ops' = [ops EXCEPT ![i] = Append(@, "wait")]
    /\ pc' = [pc EXCEPT ![i] = "GetExitCodeProcess"]
    /\ trace' = [trace EXCEPT ![i] = Append(@, "Waited")]
    /\ UNCHANGED <<fs, archive, pid, unique_dir, createResult, panicMsg,
                   stderrOut, acked, child, childCode, launch, exit_code,
                   status, dirAtReport, dirAtExit>>

\* stub.c 69-70: the result of the query is not looked at
Query(i) ==
    /\ pc[i] = "GetExitCodeProcess"
    /\ \/ exit_code' = [exit_code EXCEPT ![i] = childCode[i]]
       \/ UNCHANGED exit_code
    /\ ops' = [ops EXCEPT ![i] = Append(@, "query")]
    /\ pc' = [pc EXCEPT ![i] = "CloseHandle"]
    /\ UNCHANGED <<fs, archive, pid, unique_dir, createResult, panicMsg,
                   stderrOut, acked, child, childCode, launch, status, trace,
                   dirAtReport, dirAtExit>>

CloseMissing(i) ==
    /\ pc[i] = "CloseHandle"
    /\ pc' = [pc EXCEPT ![i] = "return"]
    /\ UNCHANGED <<fs, archive, pid, unique_dir, createResult, panicMsg,
                   stderrOut, acked, child, childCode, launch, exit_code,
                   status, ops, trace, dirAtReport, dirAtExit>>

\* stub.c 72-73
Close(i) ==
    /\ pc[i] = "CloseHandle"
    /\ ops' = [ops EXCEPT ![i] = Append(@, "close")]
    /\ pc' = [pc EXCEPT ![i] = "return"]
    /\ UNCHANGED <<fs, archive, pid, unique_dir, createResult, panicMsg,
                   stderrOut, acked, child, childCode, launch, exit_code,
                   status, trace, dirAtReport, dirAtExit>>

\* stub.c 75-78: the removal is commented out; main returns exit_code.  The
\* conversion DWORD -> int -> DWORD maps the named codes onto themselves, so a
\* DWORD that is none of them stays one that is none of them.
Return(i) ==
    /\ pc[i] = "return"
    /\ \E v \in (IF exit_code[i] = NoCode THEN StackGarbage ELSE {exit_code[i]}) :
         status' = [status EXCEPT ![i] =
                       IF v = AnyOtherDWord THEN AnyOtherDWord
                       ELSE IntToDWord(DWordToInt(v))]
    /\ dirAtExit' = [dirAtExit EXCEPT ![i] = fs[unique_dir[i]].exists]
    /\ pc' = [pc EXCEPT ![i] = "exited"]
    /\ UNCHANGED <<fs, archive, pid, unique_dir, createResult, panicMsg,
                   stderrOut, acked, child, childCode, launch, exit_code, ops,
                   trace, dirAtReport>>

\* stub.c 12-13
PanicPrint(i) ==
    /\ pc[i] = "panic"
    /\ stderrOut' = [stderrOut EXCEPT ![i] =
                        @ \o <<<<"CRITICAL", panicMsg[i]>>, "Press Enter to exit...">>]
    /\ dirAtReport' = [dirAtReport EXCEPT ![i] =
                          unique_dir[i] # 0 /\ fs[unique_dir[i]].exists]
    /\ pc' = [pc EXCEPT ![i] = "getchar"]
    /\ UNCHANGED <<fs, archive, pid, unique_dir, createResult, panicMsg, acked,
                   child, childCode, launch, exit_code, status, ops, trace,
                   dirAtExit>>

\* stub.c 14: getchar returns a character once the user has pressed Enter
GetcharInput(i) ==
    /\ pc[i] = "getchar"
    /\ acked' = [acked EXCEPT ![i] = TRUE]
    /\ pc' = [pc EXCEPT ![i] = "exit"]
    /\ UNCHANGED <<fs, archive, pid, unique_dir, createResult, panicMsg,
                   stderrOut, child, childCode, launch, exit_code, status, ops,
                   trace, dirAtReport, dirAtExit>>

\* stub.c 14: getchar returns EOF at once when stdin is closed or at its end
GetcharEOF(i) ==
    /\ pc[i] = "getchar"
    /\ pc' = [pc EXCEPT ![i] = "exit"]
    /\ UNCHANGED <<fs, archive, pid, unique_dir, createResult, panicMsg,
                   stderrOut, acked, child, childCode, launch, exit_code,
                   status, ops, trace, dirAtReport, dirAtExit>>

\* stub.c 15
PanicExit(i) ==
    /\ pc[i] = "exit"
    /\ status' = [status EXCEPT ![i] = IntToDWord(PanicExitCode)]
    /\ dirAtExit' = [dirAtExit EXCEPT ![i] =
                        unique_dir[i] # 0 /\ fs[unique_dir[i]].exists]
    /\ pc' = [pc EXCEPT ![i] = "exited"]
    /\ UNCHANGED <<fs, archive, pid, unique_dir, createResult, panicMsg,
                   stderrOut, acked, child, childCode, launch, exit_code, ops,
                   trace, dirAtReport>>

(***************************************************************************)
(* main.cpp: one run of the builder                                        *)
(***************************************************************************)
\* a script path is a string, held as its sequence of characters
PathChars == {"a", ".", "/"}
Paths == UNION {[1..n -> PathChars] : n \in 0..MaxPathLen}
Commands == {"version", "build", "help", "Version"}
ExeSuffix == <<".", "e", "x", "e">>

\* std::string::npos, as an index no string of the model reaches
NPOS == MaxPathLen + 1

\* s.find_last_of("."): 0-based index of the last ".", or npos
FindLastOf(s, c) ==
    LET hits == {k \in 1..Len(s) : s[k] = c}
    IN  IF hits = {} THEN NPOS
        ELSE (CHOOSE k \in hits : \A m \in hits : m <= k) - 1

\* s.substr(0, n): the first n characters, or all of s when n exceeds it
Substr0(s, n) == SubSeq(s, 1, IF n < Len(s) THEN n ELSE Len(s))

\* main.cpp 33
OutputExe(filename) == Substr0(filename, FindLastOf(filename, ".")) \o ExeSuffix

\* main.cpp 7-13
print_usage ==
    << "Lunu Builder v0.1.0",
       "Usage: lunu-builder <command> [options]",
       "Commands:",
       "  build <file.luau>   Compile a Luau file (placeholder)",
       "  version             Show version" >>

\* the value main returns on its last line
BuildDone == 0
\* the value main returns for a command it does not know
UnknownCommand == 1

BInit ==
    /\ argv \in {<<"lunu-builder">>}
                  \cup {<<"lunu-builder", c>> : c \in Commands}
                  \cup {<<"lunu-builder", c, f>> : c \in Commands, f \in Paths}
    /\ inputOK \in BOOLEAN
    /\ bpc = "start"
    /\ bexit = 0 - 1
    /\ bout = <<>>
    /\ berr = <<>>
    /\ written = {}

\* main.cpp 15-54
BuilderMain ==
    /\ bpc = "start"
    /\ bpc' = "done"
    /\ LET argc == Len(argv) IN
       IF argc < 2
          THEN /\ bout' = print_usage
               /\ berr' = berr
               /\ bexit' = 1
          ELSE LET command == argv[2] IN
               IF command = "version"
                  THEN /\ bout' = <<"Lunu Builder v0.1.0">>
                       /\ berr' = berr
                       /\ bexit' = BuildDone
               ELSE IF command = "build"
                  THEN IF argc < 3
                          THEN /\ berr' = <<"Error: Missing file argument.">>
                               /\ bout' = bout
                               /\ bexit' = 1
                          ELSE LET filename == argv[3]
                                   output_exe == OutputExe(filename)
                               IN  /\ bout' = << <<"[Builder] Processing", filename>>,
                                                 "[Builder] Target: Standalone Executable",
                                                 <<"[Builder] Output: ./", output_exe>>,
                                                 "[Builder] TODO" >>
                                   /\ berr' = berr
                                   /\ bexit' = BuildDone
               ELSE /\ berr' = << <<"Unknown command:", command>> >>
                    /\ bout' = print_usage
                    /\ bexit' = UnknownCommand
    /\ UNCHANGED <<argv, inputOK, written>>

LFrozen ==
    /\ fs = [p \in Pids |-> Absent]
    /\ archive = "ok"
    /\ pc = [i \in Inv |-> "idle"]
    /\ pid = [i \in Inv |-> 0]
    /\ unique_dir = [i \in Inv |-> 0]
    /\ createResult = [i \in Inv |-> "none"]
    /\ panicMsg = [i \in Inv |-> "none"]
    /\ stderrOut = [i \in Inv |-> <<>>]
    /\ acked = [i \in Inv |-> FALSE]
    /\ child = [i \in Inv |-> "none"]
    /\ childCode = [i \in Inv |-> NoCode]
    /\ launch = [i \in Inv |-> NoLaunch]
    /\ exit_code = [i \in Inv |-> NoCode]
    /\ status = [i \in Inv |-> NoCode]
    /\ ops = [i \in Inv |-> <<>>]
    /\ trace = [i \in Inv |-> <<>>]
    /\ dirAtReport = [i \in Inv |-> FALSE]
    /\ dirAtExit = [i \in Inv |-> FALSE]

BuilderInit == BInit /\ LFrozen

BuilderNext == BuilderMain /\ UNCHANGED lvars

BuilderSpec == BuilderInit /\ [][BuilderNext]_vars

BFrozen ==
    /\ argv = <<"lunu-builder">>
    /\ inputOK = FALSE
    /\ bpc = "start"
    /\ bexit = 0 - 1
    /\ bout = <<>>
    /\ berr = <<>>
    /\ written = {}

Init == LInit /\ BFrozen

Next ==
    \/ \E i \in Inv : Start(i) /\ UNCHANGED bvars
    \/ \E i \in Inv : GetModuleFileName(i) /\ UNCHANGED bvars
    \/ \E i \in Inv : CreateTempDir(i) /\ UNCHANGED bvars
    \/ \E i \in Inv : Extract(i) /\ UNCHANGED bvars
    \/ \E i \in Inv : Spawn(i) /\ UNCHANGED bvars
    \/ \E i \in Inv : ChildWrite(i) /\ UNCHANGED bvars
    \/ \E i \in Inv : ChildExit(i) /\ UNCHANGED bvars
    \/ \E i \in Inv : Wait(i) /\ UNCHANGED bvars
    \/ \E i \in Inv : Query(i) /\ UNCHANGED bvars
    \/ \E i \in Inv : Close(i) /\ UNCHANGED bvars
    \/ \E i \in Inv : Return(i) /\ UNCHANGED bvars
    \/ \E i \in Inv : PanicPrint(i) /\ UNCHANGED bvars
    \/ \E i \in Inv : GetcharInput(i) /\ UNCHANGED bvars
    \/ \E i \in Inv : GetcharEOF(i) /\ UNCHANGED bvars
    \/ \E i \in Inv : PanicExit(i) /\ UNCHANGED bvars

Spec == Init /\ [][Next]_vars

\* main runs on once the wait has returned: the steps of one launcher that
\* depend on nothing but the launcher itself being scheduled
MainAfterChild(i) ==
    (Wait(i) \/ Query(i) \/ Close(i) \/ Return(i)) /\ UNCHANGED bvars

\* the launcher under a host that keeps scheduling a runnable process
LiveSpec == Spec /\ \A i \in Inv : WF_vars(MainAfterChild(i))

(***************************************************************************)
(* Properties                                                              *)
(***************************************************************************)
\* invocation i has taken lifecycle step s
Has(i, s) == \E k \in DOMAIN trace[i] : trace[i][k] = s

InPanic(i) == pc[i] \in {"panic", "getchar", "exit"}

\* the directories invocation i, or its child, has used
Touched(i) == {unique_dir[i], launch[i].cwd} \ {0}

\* C1: success-path cleanup: a launcher that created its temp directory,
\* spawned the runtime and saw the child terminate leaves no temp directory
\* behind when its process exits.
C1_SuccessPathCleanup ==
    \A i \in Inv :
        (pc[i] = "exited" /\ Has(i, "TempDirCreated") /\ Has(i, "Waited"))
            => ~dirAtExit[i]

\* C2: failure-path cleanup: when a step after the creation of the temp
\* directory and before a successful spawn fails, the temp directory is
\* removed before the error is reported and does not exist at exit.
C2_FailurePathCleanup ==
    \A i \in Inv :
        (Has(i, "TempDirCreated") /\ Has(i, "Failed") /\ ~Has(i, "Spawned"))
            => /\ pc[i] \in {"getchar", "exit", "exited"} => ~dirAtReport[i]
               /\ pc[i] = "exited" => ~dirAtExit[i]

\* C3: exit-code propagation: a launcher that reached Waited exits with the
\* child's exit code, whatever that code is, also when the exit-code query
\* fails.
C3_ExitCodePropagation ==
    \A i \in Inv :
        (pc[i] = "exited" /\ Has(i, "Waited")) => status[i] = childCode[i]

\* C4: idempotent temp-dir creation: the launcher goes on to extraction when
\* the directory was newly created and when it already existed; after any
\* other creation failure it is in panic and never extracts or spawns.
C4_IdempotentTempDirCreation ==
    \A i \in Inv :
        createResult[i] # "none" =>
            IF createResult[i] \in {"created", "ERROR_ALREADY_EXISTS"}
               THEN /\ Has(i, "TempDirCreated")
                    /\ panicMsg[i] # "Failed to create temp directory"
                    /\ pc[i] = "extract_payload" \/ Has(i, "Extracted")
               ELSE /\ panicMsg[i] = "Failed to create temp directory"
                    /\ InPanic(i) \/ pc[i] = "exited"
                    /\ ~Has(i, "TempDirCreated")
                    /\ ~Has(i, "Extracted")
                    /\ ~Has(i, "Spawned")

\* C4 witness: one invocation went on to extraction over an existing
\* directory, another one over a new directory, or failed fatally.
C4_Witness ==
    \E i, j \in Inv :
        /\ createResult[i] = "ERROR_ALREADY_EXISTS" /\ Has(i, "Extracted")
        /\ createResult[j] = "ERROR_ACCESS_DENIED" /\ pc[j] = "exited"

\* C5: no fallback execution: the runtime is spawned only if the embedded
\* archive was located and fully extracted.
C5_NoFallbackExecution ==
    \A i \in Inv : Has(i, "Spawned") => archive = "ok"

\* C6: spawn failure is fatal: after a failed process creation no child
\* handle is waited on, queried or closed, and every fatal path exits with
\* the reserved non-zero code 1.
C6_SpawnFailureFatal ==
    \A i \in Inv :
        /\ panicMsg[i] = "Failed to start Lune runtime"
              => /\ ops[i] = <<>>
                 /\ child[i] = "none"
                 /\ InPanic(i) \/ pc[i] = "exited"
        /\ (pc[i] = "exited" /\ Has(i, "Failed"))
              => /\ status[i] = DWord(0, 1)
                 /\ ops[i] = <<>>

\* C6 witness: a launcher whose process creation failed has exited.
C6_Witness ==
    \E i \in Inv :
        /\ pc[i] = "exited"
        /\ panicMsg[i] = "Failed to start Lune runtime"
        /\ Has(i, "Extracted")

\* C7: acknowledged fatal exit: on a fatal path the message is written, then
\* the process blocks until the acknowledgment, and only then exits.
C7_AcknowledgedFatalExit ==
    \A i \in Inv :
        /\ pc[i] \in {"getchar", "exit", "exited"} /\ Has(i, "Failed")
              => Len(stderrOut[i]) > 0
        /\ pc[i] \in {"exit", "exited"} /\ Has(i, "Failed") => acked[i]

\* C8: temp-directory exclusivity: two invocations alive at the same time
\* never use the same temp directory, and none touches a directory an other
\* live invocation uses.
C8_TempDirExclusive ==
    \A i, j \in Inv :
        (i # j /\ Alive(i) /\ Alive(j)) => Touched(i) \cap Touched(j) = {}

\* C8 witness: two live invocations, each with its temp directory, one of
\* them with a running child.
C8_Witness ==
    \E i, j \in Inv :
        /\ i # j /\ Alive(i) /\ Alive(j)
        /\ unique_dir[i] # 0 /\ unique_dir[j] # 0
        /\ child[i] = "running"

\* C9: fresh extraction directory: extraction begins in a directory that
\* holds nothing left by an earlier invocation.
C9_FreshExtractionDir ==
    \A i \in Inv :
        pc[i] = "extract_payload" => fs[unique_dir[i]].leftBy \ {i} = {}

\* a build that did its work: the script was read and the image written
BuildSucceeded ==
    /\ Len(argv) >= 3
    /\ argv[2] = "build"
    /\ inputOK
    /\ OutputExe(argv[3]) \in written

\* C10: builder exit codes: 0 exactly for `version` and for a successful
\* build; 1 with no command, for `build` without a file, on a build failure
\* and for every unrecognized command.
C10_BuilderExitCodes ==
    bpc = "done" =>
        /\ bexit \in {0, 1}
        /\ bexit = 0 <=> ((Len(argv) >= 2 /\ argv[2] = "version") \/ BuildSucceeded)

\* the run was `build <script-file>`
IsBuild == Len(argv) >= 3 /\ argv[2] = "build"

\* the output name the run printed (main.cpp 36)
PrintedOutput == bout[3][2]

\* C11: build produces the image or nothing: a build that exits 0 has
\* written the assembled image at the derived output path, and a build that
\* exits 1 leaves no output file.
C11_ImageOrNothing ==
    (bpc = "done" /\ IsBuild) =>
        /\ bexit = 0 => PrintedOutput \in written
        /\ bexit = 1 => written = {}

\* the file-name part of a path: what follows its last "/"
FileNameStart(path) ==
    LET slashes == {k \in 1..Len(path) : path[k] = "/"}
    IN  IF slashes = {} THEN 1
        ELSE (CHOOSE k \in slashes : \A m \in slashes : m <= k) + 1

\* the name the derivation is specified to give: the final extension segment
\* of the file name removed, or nothing removed when the file name has none
SpecifiedOutputName(path) ==
    LET dots == {k \in FileNameStart(path)..Len(path) : path[k] = "."}
    IN  IF dots = {} THEN path \o ExeSuffix
        ELSE SubSeq(path, 1, (CHOOSE k \in dots : \A m \in dots : m <= k) - 1)
                 \o ExeSuffix

\* C12: name derivation: the derived output name is the input with only its
\* final extension segment removed and ".exe" appended; an input whose file
\* name has no extension gets ".exe" appended to the whole name, also when
\* its directory part contains a dot.
C12_NameDerivation ==
    (bpc = "done" /\ IsBuild) => PrintedOutput = SpecifiedOutputName(argv[3])

\* C13: output location: the derived output name holds no directory
\* component of the input path.
C13_OutputInCurrentDir ==
    (bpc = "done" /\ IsBuild) =>
        \A k \in 1..Len(PrintedOutput) : PrintedOutput[k] # "/"

\* the lifecycle of the supervisor, Init left out (the empty trace)
Lifecycle == <<"TempDirCreated", "Extracted", "Spawned", "Waited", "CleanedUp">>

\* t is an initial part of Lifecycle
IsLifecyclePrefix(t) ==
    /\ Len(t) <= Len(Lifecycle)
    /\ \A k \in 1..Len(t) : t[k] = Lifecycle[k]

\* C14: lifecycle order: the steps are taken in the order TempDirCreated,
\* Extracted, Spawned, Waited, CleanedUp, each at most once and none
\* skipped, Failed is the only other state, and the process exits only from
\* CleanedUp or Failed.
C14_LifecycleOrder ==
    \A i \in Inv :
        /\ \/ IsLifecyclePrefix(trace[i])
           \/ /\ Len(trace[i]) > 0
              /\ trace[i][Len(trace[i])] = "Failed"
              /\ IsLifecyclePrefix(SubSeq(trace[i], 1, Len(trace[i]) - 1))
        /\ pc[i] = "exited" =>
              /\ Len(trace[i]) > 0
              /\ trace[i][Len(trace[i])] \in {"CleanedUp", "Failed"}

HandleScope == <<"spawn", "wait", "query", "close">>

\* C15: child-handle scope: after a successful spawn the child's handles are
\* used in the order spawn, wait, read exit code, close, never after the
\* close, and they are closed when the launcher exits.
C15_ChildHandleScope ==
    \A i \in Inv :
        /\ Len(ops[i]) <= Len(HandleScope)
        /\ \A k \in 1..Len(ops[i]) : ops[i][k] = HandleScope[k]
        /\ (pc[i] = "exited" /\ Has(i, "Spawned")) => ops[i] = HandleScope

\* C15 witness: a launcher that spawned the runtime has exited.
C15_Witness ==
    \E i \in Inv : pc[i] = "exited" /\ Has(i, "Spawned") /\ Len(ops[i]) = 4

\* C16: the wait mirrors the child's lifetime: while the child runs the
\* launcher stays in the wait (no exit, no exit-code query, no cleanup), and
\* once the child has terminated the launcher eventually exits.
C16_WaitMirrorsChild ==
    /\ [](\A i \in Inv :
            child[i] = "running" =>
                /\ pc[i] = "WaitForSingleObject"
                /\ ops[i] = <<"spawn">>
                /\ exit_code[i] = NoCode)
    /\ \A i \in Inv : (child[i] = "terminated") ~> (pc[i] = "exited")

\* C16 witness: the child has terminated and its launcher has exited after it.
C16_Witness ==
    \E i \in Inv :
        child[i] = "terminated" /\ pc[i] = "exited" /\ Has(i, "Waited")

\* C17: launch convention: the runtime is started as <temp dir>\bin\lune.exe
\* with <temp dir>\src\main.luau as its script argument and with the temp
\* directory of this invocation as working directory.
C17_LaunchConvention ==
    \A i \in Inv :
        Has(i, "Spawned") =>
            /\ unique_dir[i] = pid[i]
            /\ launch[i].cwd = unique_dir[i]
            /\ Len(launch[i].cmd) = 3
            /\ launch[i].cmd[1] = <<unique_dir[i], "bin", "lune.exe">>
            /\ launch[i].cmd[2] = "run"
            /\ launch[i].cmd[3] = <<unique_dir[i], "src", "main.luau">>

\* C17 witness: two invocations have spawned their runtimes in different
\* temp directories.
C17_Witness ==
    \E i, j \in Inv :
        /\ Has(i, "Spawned") /\ Has(j, "Spawned")
        /\ unique_dir[i] # unique_dir[j]

\* C18: a failure before the temp-dir creation has no side effects: when the
\* executable path cannot be determined no temp directory is created,
\* nothing is extracted, no child is spawned, and the exit code is 1.
C18_EarlyFailureNoEffects ==
    \A i \in Inv :
        panicMsg[i] = "Failed to get executable path" =>
            /\ InPanic(i) \/ pc[i] = "exited"
            /\ unique_dir[i] = 0
            /\ createResult[i] = "none"
            /\ trace[i] = <<"Failed">>
            /\ child[i] = "none" /\ launch[i] = NoLaunch /\ ops[i] = <<>>
            /\ pc[i] = "exited" => (status[i] = DWord(0, 1) /\ ~dirAtExit[i])

\* C18 witness: a launcher that could not get its executable path has exited
\* while the directory named after its process identifier does not exist.
C18_Witness ==
    \E i \in Inv :
        /\ panicMsg[i] = "Failed to get executable path"
        /\ pc[i] = "exited"
        /\ ~fs[pid[i]].exists

====
